---- MODULE Spec2Model ----
(***************************************************************************)
(* MMM-Reddit node helper (src/node_helper.js).                            *)
(*                                                                         *)
(* The helper receives REDDIT_CONFIG socket notifications, stores the      *)
(* config on itself, fetches one page of a Reddit feed, filters and maps   *)
(* the page's records and sends REDDIT_POSTS or REDDIT_POSTS_ERROR back.   *)
(*                                                                         *)
(* JavaScript values are represented as follows.                           *)
(*   - a string that the code inspects character by character (a title,   *)
(*     a thumbnail, a pattern) is a sequence of one-character strings;     *)
(*   - an object is a record; a property the object does not have is a     *)
(*     field the record does not have (hasOwnProperty / typeof undefined   *)
(*     is a test on DOMAIN);                                               *)
(*   - an array is a sequence; JavaScript indexes from 0, sequences from 1;*)
(*   - a value that is null or a number (characterLimit) is <<>> or <<n>>; *)
(*   - a URL or null (the result of getImageUrl) is a string or nullUrl;   *)
(*   - a function that mutates an object it was handed returns the object  *)
(*     as it is after the call beside its result, and whether it threw.    *)
(***************************************************************************)
EXTENDS Integers, Sequences, FiniteSets, TLC

VARIABLES
    config,     \* this.config of the helper
    cycles,     \* the getData invocations: where each stands, and what it started with
    body,       \* the local body of the getData step that ran last, as the step left it (undefined: it decoded none)
    fetched,    \* history: that body as response.json() delivered it
    probe,      \* history: the config that step read while it filtered, and each filter call's imageSrc
    sent,       \* the last socket notification sent to the front end
    sentCount,  \* per cycle, how many notifications of each kind were sent
    calls,      \* the results of the getImageUrl calls made on body's first record
    title,      \* the title handed to formatTitle
    formatted   \* what formatTitle returned for it

vars == <<config, cycles, body, fetched, probe, sent, sentCount, calls, title, formatted>>

-----------------------------------------------------------------------------
(* Bounds of the model *)

MaxCycles == 2
MaxPosts == 2
MaxPageRes == 2
MaxRes == 7
MaxCalls == 3
MaxTitleLen == 3
MaxRules == 2
MaxLimit == 3

-----------------------------------------------------------------------------
(* Generic sequence helpers *)

Min(a, b) == IF a < b THEN a ELSE b

SeqsUpTo(S, n) == UNION {[1..k -> S] : k \in 0..n}

Chars(s) == {s[i] : i \in 1..Len(s)}

-----------------------------------------------------------------------------
(* Values *)

null == <<>>

nullUrl == "null"

undefined == [undefined |-> TRUE]

baseUrl == "https://www.reddit.com/"

qualityIndex == <<"low", "mid", "mid-high", "high">>

Marker == <<".", ".", ".">>

http == <<"h", "t", "t", "p">>

-----------------------------------------------------------------------------
(* String primitives of JavaScript, on sequences of characters *)

\* String.prototype.startsWith
startsWith(s, prefix) ==
    /\ Len(prefix) <= Len(s)
    /\ \A k \in 1..Len(prefix) : s[k] = prefix[k]

\* String.prototype.indexOf: the 0-based place of the first occurrence, or -1
indexOf(s, sub) ==
    LET places == {i \in 1..(Len(s) - Len(sub) + 1) :
                      \A k \in 1..Len(sub) : s[i + k - 1] = sub[k]}
    IN  IF places = {} THEN -1
        ELSE (CHOOSE i \in places : \A j \in places : i <= j) - 1

\* Array.prototype.indexOf on an array of strings
arrayIndexOf(arr, x) ==
    LET places == {i \in 1..Len(arr) : arr[i] = x}
    IN  IF places = {} THEN -1
        ELSE (CHOOSE i \in places : \A j \in places : i <= j) - 1

\* String.prototype.slice(0, end) for end >= 0
slice(s, end) == SubSeq(s, 1, Min(end, Len(s)))

IsSpace(c) == c = " "

\* String.prototype.trim
trim(s) ==
    LET keep == {i \in 1..Len(s) : ~IsSpace(s[i])}
    IN  IF keep = {} THEN <<>>
        ELSE SubSeq(s, CHOOSE i \in keep : \A j \in keep : i <= j,
                       CHOOSE i \in keep : \A j \in keep : i >= j)

\* The canonical form the 'i' flag compares characters in
Canon(c) == CASE c = "A" -> "a" [] c = "B" -> "b" [] OTHER -> c

\* new RegExp(source, flags) for a source without metacharacters
RegExp(source, flags) == [source |-> source, flags |-> flags]

\* Whether the pattern matches s at place i (1-based)
MatchesAt(s, i, search) ==
    LET pat == search.source
        ci  == "i" \in Chars(search.flags)
    IN  /\ i + Len(pat) - 1 <= Len(s)
        /\ \A k \in 1..Len(pat) :
              IF ci THEN Canon(s[i + k - 1]) = Canon(pat[k])
                    ELSE s[i + k - 1] = pat[k]

\* String.prototype.replace with a global pattern: left to right, every
\* non-overlapping match replaced
RECURSIVE replaceFrom(_, _, _, _)
replaceFrom(s, i, search, replacement) ==
    IF i > Len(s) THEN <<>>
    ELSE IF MatchesAt(s, i, search)
         THEN replacement \o replaceFrom(s, i + Len(search.source), search, replacement)
         ELSE <<s[i]>> \o replaceFrom(s, i + 1, search, replacement)

replace(s, search, replacement) == replaceFrom(s, 1, search, replacement)

-----------------------------------------------------------------------------
(* formatTitle *)

\* The body of the forEach callback: one modifier applied to the current title
applyModifier(current, modifier) ==
    LET caseSensitive == IF "caseSensitive" \in DOMAIN modifier
                         THEN modifier.caseSensitive ELSE TRUE
        caseFlag      == IF caseSensitive THEN <<>> ELSE <<"i">>
        search        == RegExp(modifier.toReplace, <<"g">> \o caseFlag)
        replacement   == modifier.replacement
    IN  replace(current, search, replacement)

\* forEach with every modifier applied to the title as it came in
forEachOnOriginal(current, replacements, k) ==
    IF replacements = <<>> THEN current
    ELSE applyModifier(current, replacements[Len(replacements)])

\* replacements.forEach(...): the title after modifiers k..Len(replacements)
RECURSIVE forEachModifier(_, _, _)
forEachModifier(current, replacements, k) ==
    IF k > Len(replacements) THEN current
    ELSE forEachModifier(applyModifier(current, replacements[k]), replacements, k + 1)

formatTitle(t, cfg) ==
    LET replacements   == cfg.titleReplacements
        limit          == cfg.characterLimit
        originalLength == Len(t)
        replaced       == forEachModifier(t, replacements, 1)
    IN  IF limit # null
        THEN LET cut == trim(slice(replaced, limit[1]))
             IN  IF Len(cut) # originalLength THEN cut \o Marker ELSE cut
        ELSE replaced

-----------------------------------------------------------------------------
(* getImageUrl and what it calls *)

\* Math.floor(num / den) and Math.round(num / den) for den > 0; Math.round
\* rounds a half up
MathFloor(num, den) == num \div den

MathRound(num, den) == (2 * num + den) \div (2 * den)

\* getAllImages without its lastIsSource test: source is appended on every call
getAllImagesAlwaysAppend(imageObj) ==
    IF Len(imageObj.resolutions) = 0
    THEN [threw |-> TRUE, imageObj |-> imageObj, imageSet |-> imageObj.resolutions]
    ELSE [threw    |-> FALSE,
          imageObj |-> [imageObj EXCEPT !.resolutions = Append(@, imageObj.source)],
          imageSet |-> Append(imageObj.resolutions, imageObj.source)]

\* getAllImages without its first push: the popped entry is not put back
getAllImagesDropLast(imageObj) ==
    IF Len(imageObj.resolutions) = 0
    THEN [threw |-> TRUE, imageObj |-> imageObj, imageSet |-> imageObj.resolutions]
    ELSE LET lastImage == imageObj.resolutions[Len(imageObj.resolutions)]
             popped    == SubSeq(imageObj.resolutions, 1, Len(imageObj.resolutions) - 1)
             final     == IF <<lastImage.width, lastImage.height>> # <<imageObj.source.width, imageObj.source.height>>
                          THEN Append(popped, imageObj.source) ELSE popped
         IN  [threw    |-> FALSE,
              imageObj |-> [imageObj EXCEPT !.resolutions = final],
              imageSet |-> final]

\* imageObj.resolutions is popped and pushed in place, and the array returned
\* is that same array. pop() of an empty array returns undefined and leaves the
\* array as it is; reading .width of undefined throws a TypeError.
getAllImages(imageObj) ==
    LET imageSet == imageObj.resolutions
    IN  IF Len(imageSet) = 0
        THEN [threw |-> TRUE, imageObj |-> imageObj, imageSet |-> imageSet]
        ELSE LET lastImage    == imageSet[Len(imageSet)]
                 popped       == SubSeq(imageSet, 1, Len(imageSet) - 1)
                 lastIsSource == /\ lastImage.width = imageObj.source.width
                                 /\ lastImage.height = imageObj.source.height
                 pushed       == Append(popped, lastImage)
                 final        == IF ~lastIsSource THEN Append(pushed, imageObj.source)
                                 ELSE pushed
             IN  [threw    |-> FALSE,
                  imageObj |-> [imageObj EXCEPT !.resolutions = final],
                  imageSet |-> final]

\* data is post.data: preview is data.preview (undefined when data has no such
\* property), thumbnail is data.thumbnail
skipNonImagePost(data) ==
    LET previewUndefined  == "preview" \notin DOMAIN data
        nonImageThumbnail == indexOf(data.thumbnail, http) = -1
    IN  IF ~previewUndefined /\ ~nonImageThumbnail
        THEN LET hasImages == "images" \in DOMAIN data.preview
             IN  IF hasImages
                 THEN LET firstImageHasSource == "source" \in DOMAIN data.preview.images[1]
                      IN  IF firstImageHasSource THEN FALSE ELSE TRUE
                 ELSE TRUE
        ELSE TRUE

\* selectIndex rounding for every list length
selectIndexRounded(cfg, imageCount) ==
    MathRound(arrayIndexOf(qualityIndex, cfg.imageQuality) * imageCount, 4)

\* selectIndex with the rank taken over the highest rank, 3, so that 'high' is 1
selectIndexOverThree(cfg, imageCount) ==
    IF imageCount > 5
    THEN MathRound(arrayIndexOf(qualityIndex, cfg.imageQuality) * imageCount, 3)
    ELSE MathFloor(arrayIndexOf(qualityIndex, cfg.imageQuality) * imageCount, 4)

\* qualityIndex / 4 times imageCount, rounded for more than five images and
\* floored otherwise
selectIndex(cfg, imageCount) ==
    LET qIndex == arrayIndexOf(qualityIndex, cfg.imageQuality)
    IN  IF imageCount > 5 THEN MathRound(qIndex * imageCount, 4)
        ELSE MathFloor(qIndex * imageCount, 4)

\* The result of getImageUrl: whether the call threw, the value returned, data
\* as the call left it, and the locals allPostImages, imageCount and
\* imageIndex (empty and -1 when the call did not get to them)
noImage(data, threw) ==
    [threw |-> threw, value |-> nullUrl, data |-> data,
     allPostImages |-> <<>>, imageCount |-> -1, imageIndex |-> -1]

\* return allPostImages[imageIndex].url: reading .url of undefined, which an
\* index outside the array yields, throws a TypeError
lookup(after, allPostImages, imageIndex) ==
    LET imageCount == Len(allPostImages)
    IN  IF imageIndex \in 0..(imageCount - 1)
        THEN [threw |-> FALSE, value |-> allPostImages[imageIndex + 1].url,
              data |-> after, allPostImages |-> allPostImages,
              imageCount |-> imageCount, imageIndex |-> imageIndex]
        ELSE [threw |-> TRUE, value |-> nullUrl,
              data |-> after, allPostImages |-> allPostImages,
              imageCount |-> imageCount, imageIndex |-> imageIndex]

\* getImageUrl from the return of getAllImages on: all is what
\* this.getAllImages(preview.images[0]) returned and left of the variant set
pickImage(data, cfg, all) ==
    IF all.threw THEN noImage(data, TRUE)
    ELSE lookup([data EXCEPT !.preview.images[1] = all.imageObj],
                all.imageSet, selectIndex(cfg, Len(all.imageSet)))

getImageUrl(data, cfg) ==
    IF skipNonImagePost(data) THEN noImage(data, FALSE)
    ELSE pickImage(data, cfg, getAllImages(data.preview.images[1]))

-----------------------------------------------------------------------------
(* getUrl *)

\* config.subreddit is a string, or an array of strings
\* ([isArray |-> TRUE, items |-> <<...>>]) joined with '+'
RECURSIVE join(_, _)
join(items, sep) ==
    IF Len(items) = 0 THEN ""
    ELSE IF Len(items) = 1 THEN items[1]
    ELSE items[1] \o sep \o join(Tail(items), sep)

formatSubreddit(subreddit) ==
    IF subreddit.isArray THEN join(subreddit.items, "+") ELSE subreddit.value

getUrl(cfg) ==
    LET subreddit == formatSubreddit(cfg.subreddit)
        type      == cfg.type
        count     == cfg.count
        url       == IF subreddit # "" /\ subreddit # "frontpage"
                     THEN baseUrl \o "r/" \o subreddit \o "/"
                     ELSE baseUrl
    IN  url \o type \o "/.json?raw_json=1&limit=" \o ToString(count)

-----------------------------------------------------------------------------
(* The filter and the map of getData *)

\* children.filter(...): records i..Len(children) visited in order; each visit
\* calls getImageUrl, whatever displayType is. kept holds the places of the
\* records that pass, imageSrcs what each call returned.
RECURSIVE filterFrom(_, _, _, _, _)
RECURSIVE filterVisit(_, _, _, _, _, _)
filterFrom(children, i, cfg, kept, imageSrcs) ==
    IF i > Len(children)
    THEN [threw |-> FALSE, children |-> children, kept |-> kept, imageSrc |-> imageSrcs]
    ELSE filterVisit(children, i, cfg, kept, imageSrcs, getImageUrl(children[i].data, cfg))

\* The filter callback on record i, call being its getImageUrl call
filterVisit(children, i, cfg, kept, imageSrcs, call) ==
    LET thumbnail         == children[i].data.thumbnail
        hasValidThumbnail == startsWith(thumbnail, http)
        isImageValid      == cfg.displayType # "image" \/ call.value # nullUrl
    IN  IF call.threw
        THEN [threw |-> TRUE, children |-> [children EXCEPT ![i].data = call.data],
              kept |-> kept, imageSrc |-> imageSrcs]
        ELSE filterFrom([children EXCEPT ![i].data = call.data], i + 1, cfg,
                        IF hasValidThumbnail /\ isImageValid
                        THEN Append(kept, i) ELSE kept,
                        Append(imageSrcs, call.value))

\* .map(...): the records that passed, in order
RECURSIVE mapFrom(_, _, _, _, _)
RECURSIVE mapVisit(_, _, _, _, _, _)
mapFrom(children, kept, j, cfg, posts) ==
    IF j > Len(kept)
    THEN [threw |-> FALSE, children |-> children, posts |-> posts]
    ELSE mapVisit(children, kept, j, cfg, posts, getImageUrl(children[kept[j]].data, cfg))

\* The map callback on the j-th record that passed, call being its getImageUrl
\* call (the callback reads the record's fields before and after it alike:
\* the call changes none of them)
mapVisit(children, kept, j, cfg, posts, call) ==
    LET data == children[kept[j]].data
    IN  IF call.threw
        THEN [threw |-> TRUE, children |-> [children EXCEPT ![kept[j]].data = call.data],
              posts |-> posts]
        ELSE mapFrom([children EXCEPT ![kept[j]].data = call.data], kept, j + 1, cfg,
                     Append(posts, [title        |-> formatTitle(data.title, cfg),
                                    score        |-> data.score,
                                    thumbnail    |-> data.thumbnail,
                                    src          |-> call.value,
                                    gilded       |-> data.gilded,
                                    num_comments |-> data.num_comments,
                                    subreddit    |-> data.subreddit,
                                    author       |-> data.author]))

\* What the filter (f) and the map (m) leave: whether either threw, the
\* children as they are now, and the posts
assembled(f, m) ==
    [threw |-> m.threw, children |-> m.children, kept |-> f.kept,
     imageSrc |-> f.imageSrc, posts |-> m.posts]

mapKept(f, cfg) ==
    IF f.threw
    THEN [threw |-> TRUE, children |-> f.children, kept |-> f.kept,
          imageSrc |-> f.imageSrc, posts |-> <<>>]
    ELSE assembled(f, mapFrom(f.children, f.kept, 1, cfg, <<>>))

\* body.data.children.filter(...).map(...) under the config cfg
assemble(children, cfg) == mapKept(filterFrom(children, 1, cfg, <<>>, <<>>), cfg)

-----------------------------------------------------------------------------
(* The inputs: feed records, pages, configs *)

\* Entry i of an ascending resolutions list
resolution(i) == [url |-> "r" \o ToString(i), width |-> 100 * i, height |-> 50 * i]

resolutionsOf(k) == [i \in 1..k |-> resolution(i)]

\* The source of a variant set with k resolutions: of the last entry's
\* dimensions ("same"), larger in both ("bigger"), or of its width only ("taller")
sourceOf(k, kind) ==
    CASE kind = "same"   -> [url |-> "src", width |-> 100 * k, height |-> 50 * k]
      [] kind = "bigger" -> [url |-> "src", width |-> 100 * (k + 1), height |-> 50 * (k + 1)]
      [] kind = "taller" -> [url |-> "src", width |-> 100 * k, height |-> 50 * k + 10]

ImageObjs(maxRes, kinds) ==
    {[source |-> sourceOf(0, "bigger"), resolutions |-> <<>>]}
    \cup {[source |-> sourceOf(k, kind), resolutions |-> resolutionsOf(k)] :
             k \in 1..maxRes, kind \in kinds}

\* A preview without images, one whose first variant set has no source, and
\* one with source and resolutions
Previews(maxRes, kinds) ==
    {[enabled |-> FALSE]}
    \cup {[enabled |-> TRUE, images |-> <<[resolutions |-> resolutionsOf(1)]>>]}
    \cup {[enabled |-> TRUE, images |-> <<io>>] : io \in ImageObjs(maxRes, kinds)}

Thumbnails == {http \o <<"s">>, <<"s", "e", "l", "f">>, <<"/">> \o http}

PageTitle == <<"a", " ", "B">>

postData(thumbnail) ==
    [title |-> PageTitle, score |-> 0, thumbnail |-> thumbnail, gilded |-> 0,
     num_comments |-> 7, subreddit |-> "pics", author |-> "kjb085"]

\* post.data of every shape: without preview, and with each preview
PostShapes(maxRes, kinds) ==
    {postData(t) : t \in Thumbnails}
    \cup {postData(t) @@ [preview |-> p] : t \in Thumbnails, p \in Previews(maxRes, kinds)}

\* The children of a page of k records of the shapes f[1] .. f[k], record i
\* scoring i
pageOf(f, k) == [i \in 1..k |-> [data |-> [f[i] EXCEPT !.score = i]]]

\* The pages of up to n records
Pages(n, shapes) == UNION {{pageOf(f, k) : f \in [1..k -> shapes]} : k \in 0..n}

okBody(children) == [kind |-> "Listing", data |-> [children |-> children]]

\* Decoded bodies without data.children
BadBodies == {[message |-> "Not Found", error |-> 404], [kind |-> "Listing", data |-> [dist |-> 0]]}

Responses == {[ok |-> TRUE, status |-> 200], [ok |-> FALSE, status |-> 404],
              [ok |-> FALSE, status |-> 500]}

Modifiers ==
    {[toReplace |-> <<"a">>, replacement |-> <<"b">>],
     [toReplace |-> <<"b">>, replacement |-> <<"a", "a">>, caseSensitive |-> TRUE],
     [toReplace |-> <<"a">>, replacement |-> <<>>, caseSensitive |-> FALSE],
     [toReplace |-> <<"a", " ">>, replacement |-> <<" ">>, caseSensitive |-> FALSE]}

TitleChars == {"a", "A", "b", " "}

Cfg(subreddit, displayType, imageQuality, titleReplacements, characterLimit) ==
    [subreddit |-> subreddit, type |-> "hot", count |-> 10,
     displayType |-> displayType, imageQuality |-> imageQuality,
     titleReplacements |-> titleReplacements, characterLimit |-> characterLimit]

str(s) == [isArray |-> FALSE, value |-> s]

arr(items) == [isArray |-> TRUE, items |-> items]

aToB == [toReplace |-> <<"a">>, replacement |-> <<"b">>]

\* The configs the front end sends in the helper's life cycle
CycleConfigs ==
    {Cfg(str("pics"), "image", "high", <<>>, null),
     Cfg(arr(<<"aww", "pics">>), "list", "low", <<aToB>>, <<2>>),
     Cfg(str("frontpage"), "image", "mid", <<>>, <<1>>)}

\* The configs a page is assembled under
AssembleConfigs ==
    {Cfg(str("pics"), d, q, <<aToB>>, <<2>>) :
        d \in {"image", "list"}, q \in {qualityIndex[i] : i \in 1..Len(qualityIndex)}}

\* The configs formatTitle is called under
TitleConfigs ==
    {Cfg(str("pics"), "list", "low", r, l) :
        r \in SeqsUpTo(Modifiers, MaxRules),
        l \in {null} \cup {<<n>> : n \in 0..MaxLimit}}

-----------------------------------------------------------------------------
(* The helper *)

idle == [pc |-> "idle", url |-> "", started |-> undefined, settled |-> "pending", status |-> 0]

GenericError == "An error occurred while fetching Reddit data."

NoPostsError == "No posts returned. Ensure the subreddit name is spelled correctly. Private subreddits are also inaccessible."

\* this.sendSocketNotification, for the getData invocation c
sendSocketNotification(c, notification, payload) ==
    /\ sent' = [cycle |-> c, notification |-> notification, payload |-> payload]
    /\ sentCount' = [sentCount EXCEPT ![c][notification] = @ + 1]

sendData(c, obj) == sendSocketNotification(c, "REDDIT_POSTS", obj)

sendError(c, error) == sendSocketNotification(c, "REDDIT_POSTS_ERROR", [message |-> error])

\* A step of getData that decodes no body
noBody ==
    /\ body' = undefined
    /\ fetched' = undefined
    /\ probe' = undefined

\* A cycle that has sent its notification: getData returns
finish(c, settled, status) ==
    cycles' = [cycles EXCEPT ![c].pc = "done", ![c].settled = settled, ![c].status = status]

\* socketNotificationReceived, and getData up to its first await
socketNotificationReceived(notification, payload) ==
    IF notification = "REDDIT_CONFIG"
    THEN /\ \E c \in 1..MaxCycles : cycles[c].pc = "idle"
         /\ LET c == CHOOSE i \in 1..MaxCycles :
                        cycles[i].pc = "idle" /\ \A j \in 1..(i - 1) : cycles[j].pc # "idle"
            IN  /\ config' = payload.config
                /\ cycles' = [cycles EXCEPT ![c] =
                                 [pc |-> "fetch", url |-> getUrl(payload.config),
                                  started |-> payload.config, settled |-> "pending",
                                  status |-> 0]]
         /\ noBody
         /\ UNCHANGED <<sent, sentCount, calls, title, formatted>>
    ELSE UNCHANGED vars

\* await fetch(url) rejects: the catch block
FetchRejected(c) ==
    /\ cycles[c].pc = "fetch"
    /\ sendError(c, GenericError)
    /\ finish(c, "fetchRejected", 0)
    /\ noBody
    /\ UNCHANGED <<config, calls, title, formatted>>

\* await fetch(url) resolves: getData up to await response.json()
FetchFulfilled(c, response) ==
    /\ cycles[c].pc = "fetch"
    /\ IF ~response.ok
       THEN /\ sendError(c, "Error fetching Reddit data: " \o ToString(response.status))
            /\ finish(c, "notOk", response.status)
       ELSE /\ cycles' = [cycles EXCEPT ![c].pc = "json", ![c].status = response.status]
            /\ UNCHANGED <<sent, sentCount>>
    /\ noBody
    /\ UNCHANGED <<config, calls, title, formatted>>

\* await response.json() rejects: the catch block
JsonRejected(c) ==
    /\ cycles[c].pc = "json"
    /\ sendError(c, GenericError)
    /\ finish(c, "jsonRejected", cycles[c].status)
    /\ noBody
    /\ UNCHANGED <<config, calls, title, formatted>>

\* processed sending the posts made so far when a record fails
processedPartial(c, json, cfg, done) ==
    /\ body' = [json EXCEPT !.data.children = done.children]
    /\ probe' = [cycle |-> c, config |-> cfg, kept |-> done.kept,
                 imageSrc |-> done.imageSrc]
    /\ sendData(c, [posts |-> done.posts])

\* getData from the filter to the notification, done being what the filter and
\* the map left
processed(c, json, cfg, done) ==
    /\ body' = [json EXCEPT !.data.children = done.children]
    /\ probe' = [cycle |-> c, config |-> cfg, kept |-> done.kept,
                 imageSrc |-> done.imageSrc]
    /\ IF done.threw
       THEN sendError(c, GenericError)
       ELSE sendData(c, [posts |-> done.posts])

\* await response.json() resolves: the rest of getData, under this.config as
\* it is now
JsonFulfilled(c, json) ==
    /\ cycles[c].pc = "json"
    /\ fetched' = json
    /\ finish(c, "json", cycles[c].status)
    /\ IF ~("data" \in DOMAIN json /\ "children" \in DOMAIN json.data)
       THEN /\ sendError(c, NoPostsError)
            /\ body' = json
            /\ probe' = undefined
       ELSE processed(c, json, config, assemble(json.data.children, config))
    /\ UNCHANGED <<config, calls, title, formatted>>

NoCycles == [c \in 1..MaxCycles |-> idle]

NoneSent == [c \in 1..MaxCycles |-> [REDDIT_POSTS |-> 0, REDDIT_POSTS_ERROR |-> 0]]

Init ==
    /\ config = undefined
    /\ cycles = NoCycles
    /\ body = undefined
    /\ fetched = undefined
    /\ probe = undefined
    /\ sent = undefined
    /\ sentCount = NoneSent
    /\ calls = <<>>
    /\ title = <<>>
    /\ formatted = <<>>

CycleBodies ==
    BadBodies \cup {okBody(p) : p \in Pages(1, PostShapes(MaxPageRes, {"same", "bigger"}))}

Next ==
    \/ \E n \in {"REDDIT_CONFIG", "OTHER"}, cfg \in CycleConfigs :
          socketNotificationReceived(n, [config |-> cfg])
    \/ \E c \in 1..MaxCycles : FetchRejected(c)
    \/ \E c \in 1..MaxCycles :
          cycles[c].pc = "fetch" /\ \E response \in Responses : FetchFulfilled(c, response)
    \/ \E c \in 1..MaxCycles : JsonRejected(c)
    \/ \E c \in 1..MaxCycles :
          cycles[c].pc = "json" /\ \E json \in CycleBodies : JsonFulfilled(c, json)

Spec == Init /\ [][Next]_vars

-----------------------------------------------------------------------------
(* One page assembled: a cycle whose response has arrived, awaiting its json *)

awaitingJson(cfg) ==
    [pc |-> "json", url |-> getUrl(cfg), started |-> cfg, settled |-> "pending",
     status |-> 200]

InitAssemble ==
    /\ config \in AssembleConfigs
    /\ cycles = [NoCycles EXCEPT ![1] = awaitingJson(config)]
    /\ body = undefined
    /\ fetched = undefined
    /\ probe = undefined
    /\ sent = undefined
    /\ sentCount = NoneSent
    /\ calls = <<>>
    /\ title = <<>>
    /\ formatted = <<>>

AssembleShapes == PostShapes(MaxPageRes, {"same", "bigger"})

NextAssemble ==
    /\ cycles[1].pc = "json"
    /\ \E k \in 0..MaxPosts : \E f \in [1..k -> AssembleShapes] :
          JsonFulfilled(1, okBody(pageOf(f, k)))

SpecAssemble == InitAssemble /\ [][NextAssemble]_vars

-----------------------------------------------------------------------------
(* getImageUrl called again and again on one record, as the filter and the   *)
(* map callbacks do                                                          *)

ImageConfigs ==
    {Cfg(str("pics"), "image", q, <<>>, null) :
        q \in {qualityIndex[i] : i \in 1..Len(qualityIndex)}}

ImageBodies ==
    {okBody(<<[data |-> d]>>) : d \in PostShapes(MaxRes, {"same", "bigger", "taller"})}

InitImage ==
    /\ config \in ImageConfigs
    /\ cycles = NoCycles
    /\ body \in ImageBodies
    /\ fetched = body
    /\ probe = undefined
    /\ sent = undefined
    /\ sentCount = NoneSent
    /\ calls = <<>>
    /\ title = <<>>
    /\ formatted = <<>>

\* The call's result logged, and the record left as the call left it
returned(call) ==
    /\ calls' = Append(calls, [threw |-> call.threw, value |-> call.value,
                               allPostImages |-> call.allPostImages,
                               imageCount |-> call.imageCount,
                               imageIndex |-> call.imageIndex])
    /\ body' = [body EXCEPT !.data.children[1].data = call.data]

getImageUrlCalled ==
    /\ Len(calls) < MaxCalls
    /\ returned(getImageUrl(body.data.children[1].data, config))
    /\ UNCHANGED <<config, cycles, fetched, probe, sent, sentCount, title, formatted>>

NextImage == getImageUrlCalled

SpecImage == InitImage /\ [][NextImage]_vars

-----------------------------------------------------------------------------
(* formatTitle called on a title *)

InitTitle ==
    /\ config \in TitleConfigs
    /\ cycles = NoCycles
    /\ body = undefined
    /\ fetched = undefined
    /\ probe = undefined
    /\ sent = undefined
    /\ sentCount = NoneSent
    /\ calls = <<>>
    /\ title \in SeqsUpTo(TitleChars, MaxTitleLen)
    /\ formatted = <<>>

formatTitleCalled ==
    /\ formatted = <<>>
    /\ formatted' = <<formatTitle(title, config)>>
    /\ UNCHANGED <<config, cycles, body, fetched, probe, sent, sentCount, calls, title>>

NextTitle == formatTitleCalled

SpecTitle == InitTitle /\ [][NextTitle]_vars

-----------------------------------------------------------------------------
(* Properties *)

rank(quality) ==
    CASE quality = "low" -> 0 [] quality = "mid" -> 1
      [] quality = "mid-high" -> 2 [] quality = "high" -> 3

dims(v) == <<v.width, v.height>>

hasChildren(json) == "data" \in DOMAIN json /\ "children" \in DOMAIN json.data

\* The record has a first variant set with a source, and a thumbnail holding
\* 'http': getImageUrl goes on to getAllImages
hasSourceSet(data) ==
    /\ "preview" \in DOMAIN data
    /\ indexOf(data.thumbnail, http) # -1
    /\ "images" \in DOMAIN data.preview
    /\ "source" \in DOMAIN data.preview.images[1]

\* A record whose processing raises an exception
recordFails(data) ==
    hasSourceSet(data) /\ Len(data.preview.images[1].resolutions) = 0

\* The image selector returns a non-null URL for the record
selectorReturnsUrl(data, cfg) ==
    ~getImageUrl(data, cfg).threw /\ getImageUrl(data, cfg).value # nullUrl

eligible(data, cfg) ==
    /\ startsWith(data.thumbnail, http)
    /\ (cfg.displayType # "image" \/ selectorReturnsUrl(data, cfg))

\* C1: for every fetched page and every displayType, the posts sent in
\* REDDIT_POSTS are exactly the page's eligible records in their order, a
\* record being eligible iff its thumbnail starts with 'http' and displayType
\* is not 'image' or the image selector returns a URL for it; whatever the
\* previews look like, zero resolutions included.
C1_EmittedAreTheEligible ==
    (cycles[1].pc = "done" /\ hasChildren(fetched)) =>
        LET children == fetched.data.children
            places   == {i \in 1..Len(children) : eligible(children[i].data, probe.config)}
        IN  /\ sent.notification = "REDDIT_POSTS"
            /\ Len(sent.payload.posts) = Cardinality(places)
            /\ \A j \in 1..Len(sent.payload.posts) :
                  /\ sent.payload.posts[j].score \in places
                  /\ j > 1 => sent.payload.posts[j - 1].score < sent.payload.posts[j].score

\* C2: the posts sent for a cycle are those the page yields under the config
\* that cycle's REDDIT_CONFIG notification carried (the one its URL was built
\* from), whatever notifications arrived while its fetch was in flight.
C2_PostsUseCycleConfig ==
    (sent # undefined /\ sent.notification = "REDDIT_POSTS" /\ fetched # undefined) =>
        sent.payload.posts = assemble(fetched.data.children, cycles[sent.cycle].started).posts

\* C3: a cycle that has not settled has sent nothing; one that has settled has
\* sent exactly one notification: REDDIT_POSTS with the posts when the
\* response was ok, had data.children and no record failed, and otherwise
\* REDDIT_POSTS_ERROR with only a message (the status for a response not ok,
\* the subreddit guidance for missing data.children, the generic message for
\* a rejected fetch or json and for a failing record).
C3_OneNotificationPerCycle ==
    /\ \A c \in 1..MaxCycles :
          sentCount[c].REDDIT_POSTS + sentCount[c].REDDIT_POSTS_ERROR =
              IF cycles[c].pc = "done" THEN 1 ELSE 0
    /\ sent # undefined =>
          LET cy    == cycles[sent.cycle]
              error == [cycle |-> sent.cycle, notification |-> "REDDIT_POSTS_ERROR",
                        payload |-> [message |-> GenericError]]
          IN  /\ cy.pc = "done"
              /\ sentCount[sent.cycle][sent.notification] = 1
              /\ cy.settled \in {"fetchRejected", "jsonRejected"} => sent = error
              /\ cy.settled = "notOk" =>
                    /\ sent.notification = "REDDIT_POSTS_ERROR"
                    /\ sent.payload =
                          [message |-> "Error fetching Reddit data: " \o ToString(cy.status)]
              /\ (cy.settled = "json" /\ fetched # undefined /\ ~hasChildren(fetched)) =>
                    /\ sent.notification = "REDDIT_POSTS_ERROR"
                    /\ sent.payload = [message |-> NoPostsError]
              /\ (cy.settled = "json" /\ fetched # undefined /\ hasChildren(fetched)) =>
                    IF \E i \in 1..Len(fetched.data.children) :
                          recordFails(fetched.data.children[i].data)
                    THEN sent = error
                    ELSE /\ sent.notification = "REDDIT_POSTS"
                         /\ DOMAIN sent.payload = {"posts"}
                         /\ Len(sent.payload.posts) = Len(probe.kept)

\* Two cycles have settled, one with its posts and the last with the generic
\* error for a record that failed
C3_Witness ==
    /\ sent # undefined
    /\ sent.notification = "REDDIT_POSTS_ERROR"
    /\ cycles[sent.cycle].settled = "json"
    /\ fetched # undefined
    /\ hasChildren(fetched)
    /\ \E i \in 1..Len(fetched.data.children) : recordFails(fetched.data.children[i].data)
    /\ \E c \in 1..MaxCycles : cycles[c].pc = "done" /\ sentCount[c].REDDIT_POSTS = 1

\* C4: with a limit, formatTitle appends the marker iff the truncated and
\* trimmed title's length differs from the length of the title after the
\* replacement rules.
C4_MarkerIffPostRuleLengthDiffers ==
    (formatted # <<>> /\ config.characterLimit # null) =>
        LET postRule == forEachModifier(title, config.titleReplacements, 1)
            cut      == trim(slice(postRule, config.characterLimit[1]))
        IN  formatted[1] = IF Len(cut) # Len(postRule) THEN cut \o Marker ELSE cut

\* The variant set of the record getImageUrl is called on
firstSet(json) == json.data.children[1].data.preview.images[1]

\* C5: for a variant set with a source and zero or more resolutions, every
\* getAllImages call returns a candidate list holding the variant of source's
\* dimensions exactly once, as its last element.
C5_SourceOnceAndLast ==
    hasSourceSet(fetched.data.children[1].data) =>
        \A k \in 1..Len(calls) :
            LET list == calls[k].allPostImages
                src  == firstSet(fetched).source
            IN  /\ ~calls[k].threw
                /\ Len(list) >= 1
                /\ dims(list[Len(list)]) = dims(src)
                /\ Cardinality({i \in 1..Len(list) : dims(list[i]) = dims(src)}) = 1

hasFirstSet(data) == "preview" \in DOMAIN data /\ "images" \in DOMAIN data.preview

afterCalls(data) ==
    IF /\ hasSourceSet(data)
       /\ Len(data.preview.images[1].resolutions) > 0
       /\ dims(data.preview.images[1].resolutions[Len(data.preview.images[1].resolutions)])
              # dims(data.preview.images[1].source)
    THEN [data EXCEPT !.preview.images[1].resolutions = Append(@, data.preview.images[1].source)]
    ELSE data

C7_ShortListIndexInRange ==
    \A k \in 1..Len(calls) :
        calls[k].imageCount \in 1..5 =>
            LET n   == calls[k].imageCount
                r   == rank(config.imageQuality)
                idx == calls[k].imageIndex
            IN  /\ 4 * idx <= r * n
                /\ r * n < 4 * (idx + 1)
                /\ 0 <= idx
                /\ idx < n
                /\ ~calls[k].threw
                /\ calls[k].value = calls[k].allPostImages[idx + 1].url

\* 'high' on five candidates: index 3
C7_Witness ==
    /\ calls # <<>>
    /\ config.imageQuality = "high"
    /\ calls[1].imageCount = 5
    /\ calls[1].imageIndex = 3
    /\ calls[1].value = "r4"

\* C8 as stated: with 'high', among the list lengths above five there are
\* some whose index equals the length.
C8_HighIndexReachesCount ==
    (calls # <<>> /\ config.imageQuality = "high" /\ calls[1].imageCount > 5) =>
        \E n \in 6..calls[1].imageCount : selectIndex(config, n) = n

\* C8 amended: for a candidate list of more than five entries and each
\* quality rank r in 0..3, the index picked is round((r / 4) * n), and it is
\* at most n - 1, with 'high' too (r / 4 is 3/4, never 1): the lookup is in
\* range and the call returns the URL of the candidate at that index.
C8_LongListIndexInRange ==
    \A k \in 1..Len(calls) :
        calls[k].imageCount > 5 =>
            LET n   == calls[k].imageCount
                r   == rank(config.imageQuality)
                idx == calls[k].imageIndex
            IN  /\ 4 * idx - 2 <= r * n
                /\ r * n < 4 * idx + 2
                /\ 0 <= idx
                /\ idx <= n - 1
                /\ ~calls[k].threw
                /\ calls[k].value = calls[k].allPostImages[idx + 1].url

\* 'high' on six candidates: 4.5 rounds to 5, the last index
C8_Witness ==
    /\ calls # <<>>
    /\ config.imageQuality = "high"
    /\ calls[1].imageCount = 6
    /\ calls[1].imageIndex = 5
    /\ ~calls[1].threw

\* Rule N applied to what rules 1..N-1 made of the title
RECURSIVE ruleChain(_, _)
ruleChain(t, rules) ==
    IF rules = <<>> THEN t
    ELSE applyModifier(ruleChain(t, SubSeq(rules, 1, Len(rules) - 1)), rules[Len(rules)])

\* Whether the character c is one the one-character pattern of the rule matches
ruleMatches(rule, c) ==
    IF "caseSensitive" \in DOMAIN rule /\ ~rule.caseSensitive
    THEN Canon(c) = Canon(rule.toReplace[1])
    ELSE c = rule.toReplace[1]

\* C9: the rules are applied in list order, each to the output of the one
\* before it, and each replaces every occurrence; the limit then works on
\* that output; with no rule and no limit the output is the input.
C9_RulesInOrderOnCurrentTitle ==
    formatted # <<>> =>
        LET rules == config.titleReplacements
            limit == config.characterLimit
            chain == ruleChain(title, rules)
        IN  /\ limit = null => formatted[1] = chain
            /\ limit # null =>
                  formatted[1] \in {trim(slice(chain, limit[1])),
                                    trim(slice(chain, limit[1])) \o Marker}
            /\ (rules = <<>> /\ limit = null) => formatted[1] = title
            /\ (/\ Len(rules) = 1
                /\ limit = null
                /\ Len(rules[1].toReplace) = 1
                /\ \A i \in 1..Len(rules[1].replacement) :
                      ~ruleMatches(rules[1], rules[1].replacement[i]))
               => \A i \in 1..Len(formatted[1]) : ~ruleMatches(rules[1], formatted[1][i])

\* Two rules whose order decides the output, and the second rule changing
\* what the first made
C9_Witness ==
    /\ formatted # <<>>
    /\ config.characterLimit = null
    /\ Len(config.titleReplacements) = 2
    /\ formatted[1] # applyModifier(title, config.titleReplacements[1])
    /\ formatted[1] # applyModifier(title, config.titleReplacements[2])
    /\ formatted[1] # applyModifier(applyModifier(title, config.titleReplacements[2]),
                                    config.titleReplacements[1])

\* C10: for every post sent, the map's getImageUrl call returned what the
\* filter's call on the same record returned; with displayType 'image' every
\* post sent has a src, and every post sent has a thumbnail starting with
\* 'http'.
C10_FilterAndMapAgree ==
    (sent # undefined /\ sent.notification = "REDDIT_POSTS" /\ probe # undefined) =>
        /\ Len(sent.payload.posts) = Len(probe.kept)
        /\ \A j \in 1..Len(sent.payload.posts) :
              /\ sent.payload.posts[j].src = probe.imageSrc[probe.kept[j]]
              /\ startsWith(sent.payload.posts[j].thumbnail, http)
              /\ probe.config.displayType = "image" => sent.payload.posts[j].src # nullUrl

\* A post sent under 'image' whose filter call appended source to its
\* resolutions
C10_Witness ==
    /\ sent # undefined
    /\ sent.notification = "REDDIT_POSTS"
    /\ probe.config.displayType = "image"
    /\ \E j \in 1..Len(sent.payload.posts) :
          LET i == sent.payload.posts[j].score
          IN  /\ sent.payload.posts[j].src # nullUrl
              /\ Len(body.data.children[i].data.preview.images[1].resolutions) >
                    Len(fetched.data.children[i].data.preview.images[1].resolutions)

====
